---- MODULE Spec2Model ----
(***************************************************************************)
(* wakesprint: the SQLite-backed device registry (DeviceManager) and the   *)
(* wake dispatcher (WakeOnLanService).                                     *)
(*                                                                         *)
(* Strings are sequences of character codes, so that the store's NOCASE    *)
(* collation (ASCII case folding, byte-wise comparison) is computed the    *)
(* way SQLite computes it.  JavaScript's undefined and null are two values *)
(* that are no string: sequences holding a code no character has.          *)
(***************************************************************************)
EXTENDS Integers, Sequences, FiniteSets, TLC

VARIABLES db, devices, legacy, last, calls, imported, loads, promises, returned,
          http

\* the state of the WakeOnLanService's calls, and of the registry
dispatcher == <<promises, returned, http>>
registry == <<db, devices, legacy, last, calls, imported, loads>>

vars == <<db, devices, legacy, last, calls, imported, loads, promises, returned, http>>

(***************************************************************************)
(* Values                                                                  *)
(***************************************************************************)
undefined == <<-1>>
null == <<-2>>

EmptyStr == <<>>
\* "a", "A", "B"
NameLowerA == <<97>>
NameUpperA == <<65>>
NameUpperB == <<66>>
\* "example-device"
ExampleName == <<101, 120, 97, 109, 112, 108, 101, 45, 100, 101, 118, 105, 99, 101>>
\* "00:11:22:33:44:55"
ExampleMac == <<48, 48, 58, 49, 49, 58, 50, 50, 58, 51, 51, 58, 52, 52, 58, 53, 53>>
\* "AA-BB-CC-DD-EE-FF"
OtherMac == <<65, 65, 45, 66, 66, 45, 67, 67, 45, 68, 68, 45, 69, 69, 45, 70, 70>>
\* "192.168.1.100"
ExampleIp == <<49, 57, 50, 46, 49, 54, 56, 46, 49, 46, 49, 48, 48>>
\* "192.168.1.255"
ExampleBroadcast == <<49, 57, 50, 46, 49, 54, 56, 46, 49, 46, 50, 53, 53>>

(***************************************************************************)
(* Bounds: the strings the callers pass, and the number of rows kept.      *)
(***************************************************************************)
MaxDevices == 2

Names == {EmptyStr, NameLowerA, NameUpperA, NameUpperB, ExampleName}
Macs == {ExampleMac, OtherMac}

\* devices.json: missing, or a JSON array of Device objects
NoFile == [exists |-> FALSE, parses |-> FALSE, entries |-> <<>>]
JsonFile(entries) == [exists |-> TRUE, parses |-> TRUE, entries |-> entries]
\* addDevice(device: Device): name and mac are strings, ip and broadcast optional
DeviceInputs ==
    [name : Names, mac : Macs, ip : {undefined}, broadcast : {undefined}]

\* updateDevice(name, updates: Partial<Device>): every key may be missing
\* (undefined), null, or a string.  The calls made: no key, one key, or a new
\* name together with other keys.
Updates(name, mac, ip, broadcast) ==
    [name |-> name, mac |-> mac, ip |-> ip, broadcast |-> broadcast]

UpdateInputs ==
    {Updates(n, undefined, undefined, undefined) : n \in Names \cup {undefined, null}}
    \cup {Updates(undefined, m, undefined, undefined) : m \in {OtherMac, null}}
    \cup {Updates(undefined, undefined, null, undefined),
          Updates(NameLowerA, OtherMac, null, undefined)}

NoUpdates == Updates(undefined, undefined, undefined, undefined)

(***************************************************************************)
(* COLLATE NOCASE: SQLite folds the 26 ASCII upper-case letters and        *)
(* compares byte by byte; of two strings equal up to the shorter one's     *)
(* length the shorter sorts first.                                         *)
(***************************************************************************)
ToLower(c) == IF c >= 65 /\ c <= 90 THEN c + 32 ELSE c

\* negative, zero or positive as x sorts before, with or after y: the first
\* position from i on where the folded strings differ decides, else the lengths
RECURSIVE NocaseCompareFrom(_, _, _)
NocaseCompareFrom(x, y, i) ==
    IF i > Len(x) \/ i > Len(y)
    THEN Len(x) - Len(y)
    ELSE IF ToLower(x[i]) # ToLower(y[i])
    THEN ToLower(x[i]) - ToLower(y[i])
    ELSE NocaseCompareFrom(x, y, i + 1)

NocaseCompare(x, y) == NocaseCompareFrom(x, y, 1)

NocaseEqual(x, y) == NocaseCompare(x, y) = 0

\* || and ?? and truthiness of a string-or-missing value
Nullish(v) == v = undefined \/ v = null
OrNull(v) == IF Nullish(v) THEN null ELSE v
Truthy(v) == ~Nullish(v) /\ v # EmptyStr

(***************************************************************************)
(* The devices table:                                                      *)
(*   name TEXT NOT NULL UNIQUE COLLATE NOCASE, mac TEXT NOT NULL,          *)
(*   ip TEXT, broadcast TEXT                                               *)
(* A statement that breaks a constraint is rejected (SQLITE_CONSTRAINT)    *)
(* and changes nothing.                                                    *)
(***************************************************************************)
Row(name, mac, ip, broadcast) ==
    [name |-> name, mac |-> mac, ip |-> ip, broadcast |-> broadcast]

NotNullViolated(row) == Nullish(row.name) \/ Nullish(row.mac)

\* the table created without UNIQUE on name
UniqueNotEnforced(others, row) == FALSE

UniqueViolated(others, row) == \E r \in others : NocaseEqual(r.name, row.name)

\* WHERE name = ? compared byte for byte
WhereNameBinary(tbl, name) == {r \in tbl : r.name = name}

\* WHERE name = ? COLLATE NOCASE
WhereName(tbl, name) == {r \in tbl : NocaseEqual(r.name, name)}

\* INSERT INTO devices (name, mac, ip, broadcast) VALUES (?, ?, ?, ?)
Insert(tbl, row) ==
    IF NotNullViolated(row) \/ UniqueViolated(tbl, row)
    THEN [ok |-> FALSE, table |-> tbl]
    ELSE [ok |-> TRUE, table |-> tbl \cup {row}]

\* DELETE FROM devices WHERE name = ? COLLATE NOCASE
Delete(tbl, name) ==
    [changes |-> Cardinality(WhereName(tbl, name)), table |-> tbl \ WhereName(tbl, name)]

\* UPDATE devices SET <the columns whose value in set is not undefined>
\* WHERE name = ? COLLATE NOCASE
SetColumns(row, set) ==
    [c \in DOMAIN row |-> IF set[c] = undefined THEN row[c] ELSE set[c]]

Update(tbl, set, name) ==
    LET hit == WhereName(tbl, name)
        rest == tbl \ hit
        new == {SetColumns(r, set) : r \in hit}
        bad == \E r \in new :
                   NotNullViolated(r) \/ UniqueViolated(rest \cup (new \ {r}), r)
    IN  IF bad
        THEN [ok |-> FALSE, changes |-> 0, table |-> tbl]
        ELSE [ok |-> TRUE, changes |-> Cardinality(hit), table |-> rest \cup new]

(***************************************************************************)
(* ORDER BY name COLLATE NOCASE: the rows as a sequence, each row before   *)
(* every row whose name sorts after it.                                    *)
(***************************************************************************)
\* x sorts before y byte for byte, no case folding
RECURSIVE BinaryBeforeFrom(_, _, _)
BinaryBeforeFrom(x, y, i) ==
    IF i > Len(x) \/ i > Len(y)
    THEN Len(x) <= Len(y)
    ELSE IF x[i] # y[i] THEN x[i] < y[i] ELSE BinaryBeforeFrom(x, y, i + 1)

\* ORDER BY name with the binary collation
RECURSIVE OrderByNameBinary(_)
OrderByNameBinary(rows) ==
    IF rows = {}
    THEN <<>>
    ELSE LET first == CHOOSE r \in rows :
                          \A q \in rows : BinaryBeforeFrom(r.name, q.name, 1)
         IN  <<first>> \o OrderByNameBinary(rows \ {first})

RECURSIVE OrderByName(_)
OrderByName(rows) ==
    IF rows = {}
    THEN <<>>
    ELSE LET first == CHOOSE r \in rows :
                          \A q \in rows : NocaseCompare(r.name, q.name) <= 0
         IN  <<first>> \o OrderByName(rows \ {first})

(***************************************************************************)
(* DeviceManager                                                           *)
(***************************************************************************)
ensureDb == db

normalizeDevice(device) ==
    [device EXCEPT !.ip = IF Nullish(device.ip) THEN undefined ELSE device.ip,
                   !.broadcast = IF Nullish(device.broadcast) THEN undefined
                                 ELSE device.broadcast]

\* the rows of SELECT ... ORDER BY name COLLATE NOCASE, each normalised
getDevices(tbl) ==
    LET rows == OrderByName(tbl)
    IN  [i \in 1..Len(rows) |-> normalizeDevice(rows[i])]

\* Device | undefined, as a sequence of at most one device
getDevice(tbl, name) ==
    LET hit == WhereName(tbl, name)
    IN  IF hit = {} THEN <<>> ELSE <<normalizeDevice(CHOOSE r \in hit : TRUE)>>

\* addDevice without the lookup, leaving duplicates to the table's constraint
addDeviceNoLookup(tbl, device) ==
    LET ins == Insert(tbl, Row(device.name, device.mac,
                               OrNull(device.ip), OrNull(device.broadcast)))
    IN  [result |-> IF ins.ok THEN "ok" ELSE "SQLITE_CONSTRAINT", table |-> ins.table]

\* the outcome of addDevice(device) on table tbl
addDevice(tbl, device) ==
    IF getDevice(tbl, device.name) # <<>>
    THEN [result |-> "DuplicateName", table |-> tbl]
    ELSE LET ins == Insert(tbl, Row(device.name, device.mac,
                                    OrNull(device.ip), OrNull(device.broadcast)))
         IN  [result |-> IF ins.ok THEN "ok" ELSE "SQLITE_CONSTRAINT",
              table |-> ins.table]

\* removeDevice reporting true whatever result.changes is
removeDeviceChangesIgnored(tbl, name) ==
    [result |-> "true", table |-> Delete(tbl, name).table]

\* the outcome of removeDevice(name)
removeDevice(tbl, name) ==
    LET del == Delete(tbl, name)
    IN  [result |-> IF del.changes > 0 THEN "true" ELSE "false", table |-> del.table]

\* the SET list of updateDevice: a key that is not undefined is set, null as NULL
UpdateFields(updates) ==
    [c \in DOMAIN updates |-> IF updates[c] = undefined THEN undefined
                              ELSE OrNull(updates[c])]

\* updateDevice without the fields.length === 0 return: UPDATE devices SET
\* with nothing to set is no statement, and db.run rejects it
updateDeviceNoEarlyReturn(tbl, name, updates) ==
    IF getDevice(tbl, name) = <<>>
    THEN [result |-> "false", table |-> tbl]
    ELSE IF /\ Truthy(updates.name)
            /\ updates.name # name
            /\ getDevice(tbl, updates.name) # <<>>
    THEN [result |-> "DuplicateName", table |-> tbl]
    ELSE IF \A c \in DOMAIN updates : updates[c] = undefined
    THEN [result |-> "SQLITE_ERROR", table |-> tbl]
    ELSE LET upd == Update(tbl, UpdateFields(updates), name)
         IN  [result |-> IF ~upd.ok THEN "SQLITE_CONSTRAINT"
                         ELSE IF upd.changes > 0 THEN "true" ELSE "false",
              table |-> upd.table]

\* updateDevice looking for the new name before it looks for the device
updateDeviceNewNameFirst(tbl, name, updates) ==
    IF /\ Truthy(updates.name)
       /\ updates.name # name
       /\ getDevice(tbl, updates.name) # <<>>
    THEN [result |-> "DuplicateName", table |-> tbl]
    ELSE IF getDevice(tbl, name) = <<>>
    THEN [result |-> "false", table |-> tbl]
    ELSE IF \A c \in DOMAIN updates : updates[c] = undefined
    THEN [result |-> "true", table |-> tbl]
    ELSE LET upd == Update(tbl, UpdateFields(updates), name)
         IN  [result |-> IF ~upd.ok THEN "SQLITE_CONSTRAINT"
                         ELSE IF upd.changes > 0 THEN "true" ELSE "false",
              table |-> upd.table]

\* the outcome of updateDevice(name, updates)
updateDevice(tbl, name, updates) ==
    IF getDevice(tbl, name) = <<>>
    THEN [result |-> "false", table |-> tbl]
    ELSE IF /\ Truthy(updates.name)
            /\ updates.name # name
            /\ getDevice(tbl, updates.name) # <<>>
    THEN [result |-> "DuplicateName", table |-> tbl]
    ELSE IF \A c \in DOMAIN updates : updates[c] = undefined
    THEN [result |-> "true", table |-> tbl]
    ELSE LET upd == Update(tbl, UpdateFields(updates), name)
         IN  [result |-> IF ~upd.ok THEN "SQLITE_CONSTRAINT"
                         ELSE IF upd.changes > 0 THEN "true" ELSE "false",
              table |-> upd.table]

\* the for loop of migrateLegacyConfig from entry i on: the table when the loop
\* ends, and whether an INSERT was rejected (the rows inserted before it stay)
RECURSIVE ImportFrom(_, _, _)
ImportFrom(tbl, entries, i) ==
    IF i > Len(entries)
    THEN [ok |-> TRUE, table |-> tbl]
    ELSE LET ins == Insert(tbl, Row(entries[i].name, entries[i].mac,
                                    OrNull(entries[i].ip), OrNull(entries[i].broadcast)))
         IN  IF ins.ok THEN ImportFrom(ins.table, entries, i + 1)
             ELSE [ok |-> FALSE, table |-> ins.table]

ExampleDevice == Row(ExampleName, ExampleMac, ExampleIp, ExampleBroadcast)

\* migrateLegacyConfig() without the return that follows the for loop
migrateLegacyConfigNoReturn(tbl, file) ==
    IF Cardinality(tbl) > 0
    THEN [result |-> "ok", table |-> tbl]
    ELSE LET imp == IF file.exists /\ file.parses
                    THEN ImportFrom(tbl, file.entries, 1)
                    ELSE [ok |-> FALSE, table |-> tbl]
             seed == Insert(imp.table, ExampleDevice)
         IN  [result |-> IF seed.ok THEN "ok" ELSE "SQLITE_CONSTRAINT",
              table |-> seed.table]

\* migrateLegacyConfig() without the early return on a store that has rows
migrateLegacyConfigNoCount(tbl, file) ==
    LET imp == IF file.exists /\ file.parses
               THEN ImportFrom(tbl, file.entries, 1)
               ELSE [ok |-> FALSE, table |-> tbl]
        seed == Insert(imp.table, ExampleDevice)
    IN  IF file.exists /\ imp.ok
        THEN [result |-> "ok", table |-> imp.table]
        ELSE [result |-> IF seed.ok THEN "ok" ELSE "SQLITE_CONSTRAINT",
              table |-> seed.table]

\* the outcome of migrateLegacyConfig() with devices.json being file
migrateLegacyConfig(tbl, file) ==
    IF Cardinality(tbl) > 0
    THEN [result |-> "ok", table |-> tbl]
    ELSE LET imp == IF file.exists /\ file.parses
                    THEN ImportFrom(tbl, file.entries, 1)
                    ELSE [ok |-> FALSE, table |-> tbl]
             seed == Insert(imp.table, ExampleDevice)
         IN  IF file.exists /\ imp.ok
             THEN [result |-> "ok", table |-> imp.table]
             ELSE [result |-> IF seed.ok THEN "ok" ELSE "SQLITE_CONSTRAINT",
                   table |-> seed.table]

\* migrateLegacyConfig() reaches its return after the for loop
legacyImported(tbl, file) ==
    /\ Cardinality(tbl) = 0
    /\ file.exists
    /\ file.parses
    /\ ImportFrom(tbl, file.entries, 1).ok

\* the outcome of loadDevices(): nothing when the database is already open
loadDevices(open, tbl, file) ==
    IF open
    THEN [result |-> "ok", table |-> tbl]
    ELSE migrateLegacyConfig(tbl, file)

(***************************************************************************)
(* The state: db (this.db is set), devices (the rows of the table, which   *)
(* outlive the process), legacy (devices.json), last (the call that was    *)
(* made last, with what it returned or threw), and calls (the addDevice    *)
(* calls that are in flight between their awaits).  imported remembers     *)
(* that the for loop of migrateLegacyConfig has once run to its end.       *)
(* promises and returned belong to the WakeOnLanService: the promises of   *)
(* the wake and wakeDevice calls made by the call that is in progress, and *)
(* what that call has returned to its caller.  loads holds the             *)
(* loadDevices calls that are in flight between their awaits, and http the *)
(* request the API server is serving, with its response.                   *)
(***************************************************************************)
Procs == {1, 2}

Idle == [pc |-> "idle", device |-> Row(undefined, undefined, undefined, undefined),
         result |-> "none"]

Call(op, name, empty, result, value) ==
    [op |-> op, name |-> name, empty |-> empty,
     result |-> result, value |-> value]

\* no call of the WakeOnLanService made yet
NoCall == [op |-> "none", args |-> <<>>, state |-> "none", value |-> <<>>]

\* no loadDevices() call in flight
NotLoading == [pc |-> "idle", i |-> 0, result |-> "none"]

\* no HTTP request being served
NoRequest == [route |-> "none", body |-> <<>>, notFound |-> <<>>, status |-> 0,
              response |-> <<>>]

InitWith(files) ==
    /\ db = FALSE
    /\ devices = {}
    /\ legacy \in files
    /\ last = Call("new", undefined, FALSE, "ok", <<>>)
    /\ calls = [p \in Procs |-> Idle]
    /\ imported = FALSE
    /\ loads = [p \in Procs |-> NotLoading]
    /\ http = NoRequest
    /\ promises = <<>>
    /\ returned = NoCall

\* a new installation: no devices.json beside the code
Init == InitWith({NoFile})

\* api.ts and the CLI await loadDevices() before they serve anything
LoadDevices ==
    LET out == loadDevices(db, devices, legacy)
    IN  /\ db' = TRUE
        /\ devices' = out.table
        /\ last' = Call("load", undefined, FALSE, out.result, <<>>)
        /\ imported' = (imported \/ (~db /\ legacyImported(devices, legacy)))
        /\ UNCHANGED <<legacy, calls, loads, dispatcher>>

\* the process ends; the next one constructs a new DeviceManager on the same store
Restart ==
    /\ db
    /\ db' = FALSE
    /\ last' = Call("new", undefined, FALSE, "ok", <<>>)
    /\ UNCHANGED <<devices, legacy, calls, imported, loads, dispatcher>>

GetDevices ==
    /\ ensureDb
    /\ last' = Call("list", undefined, FALSE, "ok", getDevices(devices))
    /\ UNCHANGED <<db, devices, legacy, calls, imported, loads, dispatcher>>

GetDevice(name) ==
    /\ ensureDb
    /\ LET found == getDevice(devices, name)
       IN  last' = Call("get", name, FALSE,
                        IF found = <<>> THEN "undefined" ELSE "found", found)
    /\ UNCHANGED <<db, devices, legacy, calls, imported, loads, dispatcher>>

AddDevice(device) ==
    /\ ensureDb
    /\ LET out == addDevice(devices, device)
       IN  /\ Cardinality(out.table) <= MaxDevices
           /\ devices' = out.table
           /\ last' = Call("add", device.name, FALSE, out.result, <<>>)
    /\ UNCHANGED <<db, legacy, calls, imported, loads, dispatcher>>

RemoveDevice(name) ==
    /\ ensureDb
    /\ LET out == removeDevice(devices, name)
       IN  /\ devices' = out.table
           /\ last' = Call("remove", name, FALSE, out.result, <<>>)
    /\ UNCHANGED <<db, legacy, calls, imported, loads, dispatcher>>

UpdateDevice(name, updates) ==
    /\ ensureDb
    /\ LET out == updateDevice(devices, name, updates)
       IN  /\ devices' = out.table
           /\ last' = Call("update", name, updates = NoUpdates, out.result, <<>>)
    /\ UNCHANGED <<db, legacy, calls, imported, loads, dispatcher>>

Next ==
    \/ LoadDevices
    \/ Restart
    \/ GetDevices
    \/ \E name \in Names : GetDevice(name)
    \/ \E device \in DeviceInputs : AddDevice(device)
    \/ \E name \in Names : RemoveDevice(name)
    \/ \E name \in Names, updates \in UpdateInputs : UpdateDevice(name, updates)

Spec == Init /\ [][Next]_vars

(***************************************************************************)
(* Two addDevice calls in flight at once (two requests of the API server,  *)
(* or the server and the CLI on one store).  A call runs its SELECT, waits *)
(* for the result, and then runs its INSERT; the other call's statements   *)
(* may run in between.                                                     *)
(***************************************************************************)
RaceInputs == [name : {NameLowerA, NameUpperA}, mac : Macs, ip : {undefined},
               broadcast : {undefined}]

RaceFiles ==
    {NoFile,
     JsonFile(<<[name |-> NameUpperB, mac |-> OtherMac, ip |-> undefined,
                 broadcast |-> undefined]>>)}

InitRace == InitWith(RaceFiles)

\* const existing = await this.getDevice(device.name); if (existing) throw
AddLookup(p, device) ==
    /\ ensureDb
    /\ calls[p].pc = "idle"
    /\ calls' = [calls EXCEPT ![p] =
                    IF getDevice(devices, device.name) # <<>>
                    THEN [pc |-> "done", device |-> device, result |-> "DuplicateName"]
                    ELSE [pc |-> "insert", device |-> device, result |-> "none"]]
    /\ UNCHANGED <<db, devices, legacy, last, imported, loads, dispatcher>>

\* await db.run('INSERT INTO devices ...')
AddInsert(p) ==
    /\ calls[p].pc = "insert"
    /\ LET device == calls[p].device
           ins == Insert(devices, Row(device.name, device.mac,
                                      OrNull(device.ip), OrNull(device.broadcast)))
       IN  /\ devices' = ins.table
           /\ calls' = [calls EXCEPT ![p] =
                           [pc |-> "done", device |-> device,
                            result |-> IF ins.ok THEN "ok" ELSE "SQLITE_CONSTRAINT"]]
    /\ UNCHANGED <<db, legacy, last, imported, loads, dispatcher>>

NextRace ==
    \/ LoadDevices
    \/ \E p \in Procs, device \in RaceInputs : AddLookup(p, device)
    \/ \E p \in Procs : AddInsert(p)

SpecRace == InitRace /\ [][NextRace]_vars

(***************************************************************************)
(* The first start of an installation that may have a devices.json from    *)
(* the JSON-file registry beside the code, and the starts that follow.     *)
(***************************************************************************)
Entry(name, mac, ip) == [name |-> name, mac |-> mac, ip |-> ip, broadcast |-> undefined]

\* JSON.parse throws on the file's text
Unparseable == [exists |-> TRUE, parses |-> FALSE, entries |-> <<>>]

BootFiles ==
    {NoFile,
     Unparseable,
     JsonFile(<<>>),
     JsonFile(<<Entry(NameLowerA, ExampleMac, ExampleIp),
                Entry(NameUpperB, OtherMac, undefined)>>),
     JsonFile(<<Entry(NameLowerA, ExampleMac, undefined),
                Entry(NameUpperA, OtherMac, undefined)>>),
     JsonFile(<<Entry(NameUpperB, OtherMac, undefined),
                Entry(NameLowerA, undefined, undefined)>>),
     JsonFile(<<Entry(ExampleName, OtherMac, undefined),
                Entry(undefined, ExampleMac, undefined)>>)}

InitBoot == InitWith(BootFiles)

NextBoot ==
    \/ LoadDevices
    \/ Restart
    \/ \E device \in DeviceInputs : AddDevice(device)
    \/ \E name \in Names : RemoveDevice(name)

SpecBoot == InitBoot /\ [][NextBoot]_vars

(***************************************************************************)
(* Two loadDevices calls in flight at once: two calls on one DeviceManager *)
(* of which the second finds this.db not yet set, or the API server and    *)
(* the CLI starting on one store.  A call goes on at each await: after the *)
(* database is opened and the table created, after the COUNT, after each   *)
(* INSERT.                                                                 *)
(***************************************************************************)
LoadFiles ==
    {NoFile,
     Unparseable,
     JsonFile(<<Entry(NameUpperB, OtherMac, ExampleIp)>>),
     JsonFile(<<Entry(NameLowerA, ExampleMac, undefined),
                Entry(NameUpperB, OtherMac, undefined)>>)}

InitLoad == InitWith(LoadFiles)

Loading(pc, i, result) == [pc |-> pc, i |-> i, result |-> result]

\* if (this.db) return;
LoadStart(p) ==
    /\ loads[p].pc = "idle"
    /\ loads' = [loads EXCEPT ![p] = IF db THEN Loading("done", 0, "ok")
                                     ELSE Loading("open", 0, "none")]
    /\ UNCHANGED <<db, devices, legacy, last, calls, imported, dispatcher>>

\* this.db = await open(...); await this.db.exec('CREATE TABLE IF NOT EXISTS ...')
LoadOpen(p) ==
    /\ loads[p].pc = "open"
    /\ db' = TRUE
    /\ loads' = [loads EXCEPT ![p] = Loading("count", 0, "none")]
    /\ UNCHANGED <<devices, legacy, last, calls, imported, dispatcher>>

\* SELECT COUNT(*), then existsSync, readFile and JSON.parse
LoadCount(p) ==
    /\ loads[p].pc = "count"
    /\ loads' = [loads EXCEPT ![p] =
                    IF Cardinality(devices) > 0 THEN Loading("done", 0, "ok")
                    ELSE IF legacy.exists /\ legacy.parses
                    THEN IF Len(legacy.entries) = 0 THEN Loading("done", 0, "ok")
                         ELSE Loading("import", 1, "none")
                    ELSE Loading("seed", 0, "none")]
    /\ UNCHANGED <<db, devices, legacy, last, calls, imported, dispatcher>>

\* one turn of the for loop: an INSERT that is rejected ends the loop in the catch
LoadImport(p) ==
    /\ loads[p].pc = "import"
    /\ LET i == loads[p].i
           ins == Insert(devices, Row(legacy.entries[i].name, legacy.entries[i].mac,
                                      OrNull(legacy.entries[i].ip),
                                      OrNull(legacy.entries[i].broadcast)))
       IN  /\ devices' = ins.table
           /\ loads' = [loads EXCEPT ![p] =
                           IF ~ins.ok THEN Loading("seed", 0, "none")
                           ELSE IF i = Len(legacy.entries) THEN Loading("done", 0, "ok")
                           ELSE Loading("import", i + 1, "none")]
           /\ imported' = (imported \/ (ins.ok /\ i = Len(legacy.entries)))
    /\ UNCHANGED <<db, legacy, last, calls, dispatcher>>

\* the INSERT of the example record
LoadSeed(p) ==
    /\ loads[p].pc = "seed"
    /\ LET ins == Insert(devices, ExampleDevice)
       IN  /\ devices' = ins.table
           /\ loads' = [loads EXCEPT ![p] =
                           Loading("done", 0, IF ins.ok THEN "ok"
                                              ELSE "SQLITE_CONSTRAINT")]
    /\ UNCHANGED <<db, legacy, last, calls, imported, dispatcher>>

NextLoad ==
    \/ \E p \in Procs : LoadStart(p)
    \/ \E p \in Procs : LoadOpen(p)
    \/ \E p \in Procs : LoadCount(p)
    \/ \E p \in Procs : LoadImport(p)
    \/ \E p \in Procs : LoadSeed(p)

SpecLoad == InitLoad /\ [][NextLoad]_vars

(***************************************************************************)
(* WakeOnLanService.isValidMac:                                            *)
(*   /^([0-9A-Fa-f]{2}[:-]){5}([0-9A-Fa-f]{2})$/.test(mac)                 *)
(* The pattern has no alternatives to go back to: it is matched from the   *)
(* first character on, one element after the other.                        *)
(***************************************************************************)
\* [0-9A-Fa-f]
IsHexDigit(c) ==
    \/ c >= 48 /\ c <= 57
    \/ c >= 65 /\ c <= 70
    \/ c >= 97 /\ c <= 102

\* [:-]
IsSeparator(c) == c = 58 \/ c = 45

\* [0-9A-Fa-f]{2} matches mac at position i
TwoHexAt(mac, i) ==
    /\ i + 1 <= Len(mac)
    /\ IsHexDigit(mac[i])
    /\ IsHexDigit(mac[i + 1])

\* ([0-9A-Fa-f]{2}[:-]){n} matched at position i: the position that follows
\* the match, 0 when there is no match
RECURSIVE GroupsEnd(_, _, _)
GroupsEnd(mac, i, n) ==
    IF n = 0 THEN i
    ELSE IF TwoHexAt(mac, i) /\ i + 2 <= Len(mac) /\ IsSeparator(mac[i + 2])
    THEN GroupsEnd(mac, i + 3, n - 1)
    ELSE 0

\* the pattern without its closing $
isValidMacUnanchored(mac) ==
    LET i == GroupsEnd(mac, 1, 5)
    IN  i # 0 /\ TwoHexAt(mac, i)

isValidMac(mac) ==
    LET i == GroupsEnd(mac, 1, 5)
    IN  i # 0 /\ TwoHexAt(mac, i) /\ i + 1 = Len(mac)

(***************************************************************************)
(* The strings isValidMac is given: groups joined by separators.           *)
(***************************************************************************)
MaxGroups == 7

\* "AA", "BB", "CC", "DD", "EE", "FF", "AA", ...
Pair(k) == LET c == 65 + ((k - 1) % 6) IN <<c, c>>

\* g1 s1 g2 s2 ... gn
RECURSIVE Join(_, _)
Join(groups, seps) ==
    IF Len(groups) = 0 THEN <<>>
    ELSE IF Len(groups) = 1 THEN groups[1]
    ELSE groups[1] \o <<seps[1]>> \o Join(Tail(groups), Tail(seps))

\* ':', '-', '.'
SepChars == {58, 45, 46}

\* "0f", "9a", "Fa", "G0", "0g", "A", "AAA", "", "/0", "@A", "`a", "A "
GroupVariants ==
    {<<48, 102>>, <<57, 97>>, <<70, 97>>, <<71, 48>>, <<48, 103>>, <<65>>,
     <<65, 65, 65>>, <<>>, <<47, 48>>, <<64, 65>>, <<96, 97>>, <<65, 32>>}

\* six groups of two hex digits, every choice of the five separators
SixPairs == {Join([k \in 1..6 |-> Pair(k)], seps) : seps \in [1..5 -> SepChars]}

\* one of the six groups replaced, one separator throughout
OneGroupChanged ==
    {Join([[k \in 1..6 |-> Pair(k)] EXCEPT ![p] = g], [k \in 1..5 |-> c]) :
        p \in 1..6, g \in GroupVariants, c \in {58, 45}}

\* from no group to MaxGroups groups, one separator throughout
AnyCount ==
    {Join([k \in 1..n |-> Pair(k)], [k \in 1..(n - 1) |-> c]) :
        n \in 0..MaxGroups, c \in {58, 45}}

\* a character before or after a string that matches: ' ', '\n', ':', '-', 'A'
Padded ==
    UNION {{<<x>> \o ExampleMac, ExampleMac \o <<x>>, <<x>> \o OtherMac,
            OtherMac \o <<x>>} : x \in {32, 10, 58, 45, 65}}

MacInputs == SixPairs \cup OneGroupChanged \cup AnyCount \cup Padded

\* a call of isValidMac(mac) that has not returned yet
InitMac ==
    /\ db = FALSE
    /\ devices = {}
    /\ legacy = NoFile
    /\ last = Call("new", undefined, FALSE, "ok", <<>>)
    /\ calls = [p \in Procs |-> Idle]
    /\ imported = FALSE
    /\ loads = [p \in Procs |-> NotLoading]
    /\ http = NoRequest
    /\ promises = <<>>
    /\ \E mac \in MacInputs :
           returned = [op |-> "isValidMac", args |-> <<mac>>, state |-> "called",
                       value |-> <<>>]

IsValidMac ==
    /\ returned.op = "isValidMac"
    /\ returned.state = "called"
    /\ returned' = [returned EXCEPT !.state = "returned",
                                    !.value = isValidMac(returned.args[1])]
    /\ UNCHANGED <<registry, promises, http>>

NextMac == IsValidMac

SpecMac == InitMac /\ [][NextMac]_vars

(***************************************************************************)
(* WakeOnLanService.wake, wakeDevice and wakeMultiple.  A promise is a     *)
(* record: the call that made it, the device it is for, the address it     *)
(* handed to wol.wake, the number of wol.wake calls made for it, what the  *)
(* callback was called with (callback), and its state and value.           *)
(***************************************************************************)
\* "Unknown"
Unknown == <<85, 110, 107, 110, 111, 119, 110>>
\* "AA:BB-CC:DD:EE:FF"
MixedMac == <<65, 65, 58, 66, 66, 45, 67, 67, 58, 68, 68, 58, 69, 69, 58, 70,
    70>>
\* "Failed to wake device: "
FailedToWakeDevice == <<70, 97, 105, 108, 101, 100, 32, 116, 111, 32, 119, 97,
    107, 101, 32, 100, 101, 118, 105, 99, 101, 58, 32>>
\* "Magic packet sent successfully"
SentSuccessfully == <<77, 97, 103, 105, 99, 32, 112, 97, 99, 107, 101, 116,
    32, 115, 101, 110, 116, 32, 115, 117, 99, 99, 101, 115, 115, 102, 117,
    108, 108, 121>>
\* "Failed to wake "
FailedToWake == <<70, 97, 105, 108, 101, 100, 32, 116, 111, 32, 119, 97, 107,
    101, 32>>
\* ": "
ColonSpace == <<58, 32>>
\* "Magic packet sent to "
SentTo == <<77, 97, 103, 105, 99, 32, 112, 97, 99, 107, 101, 116, 32, 115,
    101, 110, 116, 32, 116, 111, 32>>
\* " successfully"
Successfully == <<32, 115, 117, 99, 99, 101, 115, 115, 102, 117, 108, 108,
    121>>
\* "send EPERM"
SendError == <<115, 101, 110, 100, 32, 69, 80, 69, 82, 77>>
\* "malformed MAC address"
MacError == <<109, 97, 108, 102, 111, 114, 109, 101, 100, 32, 77, 65, 67, 32,
    97, 100, 100, 114, 101, 115, 115>>

WakeResult(success, device, mac, message) ==
    [success |-> success, device |-> device, mac |-> mac, message |-> message]

(***************************************************************************)
(* wol.wake(mac, opts, callback) of the wake_on_lan package, of which the  *)
(* service sees two things: the call returns or throws, and after it has   *)
(* returned the callback is called with an Error or with null.  A MAC the  *)
(* package cannot make a magic packet of is one that is not six hex pairs  *)
(* with one separator throughout: the call throws, or the callback gets    *)
(* an Error.  Any other send may succeed or fail in the socket.            *)
(***************************************************************************)
wolCanSend(mac) ==
    /\ isValidMac(mac)
    /\ \A k \in 1..4 : mac[3 * k] = mac[3 * k + 3]

\* wol.wake throws (TRUE) or returns (FALSE)
wolThrows(mac) == IF wolCanSend(mac) THEN {FALSE} ELSE {FALSE, TRUE}

\* what the callback is called with
wolReports(mac) == IF wolCanSend(mac) THEN {null, SendError} ELSE {MacError}

\* the executor with the device's ip as the address when it has no broadcast
NewPromiseIpFallback(op, device, threw) ==
    [op |-> op,
     device |-> device,
     address |-> IF Truthy(device.broadcast) THEN device.broadcast
                 ELSE IF Truthy(device.ip) THEN device.ip ELSE undefined,
     sends |-> 1,
     callback |-> <<>>,
     state |-> IF threw THEN "rejected" ELSE "pending",
     value |-> IF threw THEN MacError ELSE <<>>]

\* new Promise((resolve) => { ... wol.wake(...) }): the executor runs at once,
\* and an exception thrown in it rejects the promise
NewPromise(op, device, threw) ==
    [op |-> op,
     device |-> device,
     address |-> IF Truthy(device.broadcast) THEN device.broadcast ELSE undefined,
     sends |-> 1,
     callback |-> <<>>,
     state |-> IF threw THEN "rejected" ELSE "pending",
     value |-> IF threw THEN MacError ELSE <<>>]

\* the callback of wake()
wakeCallback(mac, error) ==
    IF error # null
    THEN WakeResult(FALSE, Unknown, mac, FailedToWakeDevice \o error)
    ELSE WakeResult(TRUE, Unknown, mac, SentSuccessfully)

\* the callback of wakeDevice()
wakeDeviceCallback(device, error) ==
    IF error # null
    THEN WakeResult(FALSE, device.name, device.mac,
                    FailedToWake \o device.name \o ColonSpace \o error)
    ELSE WakeResult(TRUE, device.name, device.mac,
                    SentTo \o device.name \o Successfully)

\* resolve(...) in the callback
Resolved(promise, error) ==
    [promise EXCEPT !.callback = <<error>>,
                    !.state = "resolved",
                    !.value = IF promise.op = "wake"
                              THEN wakeCallback(promise.device.mac, error)
                              ELSE wakeDeviceCallback(promise.device, error)]

\* Promise.all(promises): rejected with the first rejection, resolved with the
\* values in the order of the promises once all are resolved
PromiseAll(ps) ==
    IF \E i \in DOMAIN ps : ps[i].state = "rejected"
    THEN [state |-> "rejected",
          value |-> ps[CHOOSE i \in DOMAIN ps :
                           /\ ps[i].state = "rejected"
                           /\ \A j \in 1..(i - 1) : ps[j].state # "rejected"].value]
    ELSE IF \A i \in DOMAIN ps : ps[i].state = "resolved"
    THEN [state |-> "resolved", value |-> [i \in DOMAIN ps |-> ps[i].value]]
    ELSE [state |-> "pending", value |-> <<>>]

\* a loop that awaits each wakeDevice before it calls the next: when it first
\* waits, only the first device's send has been started
wakeMultipleOneByOne(batch, threw) ==
    [i \in DOMAIN batch |->
        IF i = 1 THEN NewPromise("wakeDevice", batch[i], threw[i])
        ELSE [NewPromise("wakeDevice", batch[i], FALSE) EXCEPT
                 !.sends = 0, !.state = "unstarted"]]

\* devices.map(device => this.wakeDevice(device)): every executor runs, in the
\* order of devices, before Promise.all is called; threw[i] tells whether
\* wol.wake threw for devices[i]
wakeMultiple(batch, threw) ==
    [i \in DOMAIN batch |-> NewPromise("wakeDevice", batch[i], threw[i])]

\* what the call in progress has returned, given its promises
Settled(op, args, ps) ==
    LET out == IF op = "wakeMultiple" THEN PromiseAll(ps)
               ELSE [state |-> ps[1].state, value |-> ps[1].value]
    IN  [op |-> op, args |-> args, state |-> out.state, value |-> out.value]

(***************************************************************************)
(* POST /api/wake-multiple.  The handler looks every name up, answers 404  *)
(* when it finds none, and else awaits wakeMultiple(devices) and answers   *)
(* with the results, the names not found and a summary; an exception, the  *)
(* rejection of the awaited promise included, is answered with 500.        *)
(***************************************************************************)
\* the for loop: the devices found, and the names not found, in request order
Found(tbl, deviceNames) ==
    LET names == SelectSeq(deviceNames, LAMBDA name : getDevice(tbl, name) # <<>>)
    IN  [k \in DOMAIN names |-> getDevice(tbl, names[k])[1]]

NotFound(tbl, deviceNames) ==
    SelectSeq(deviceNames, LAMBDA name : getDevice(tbl, name) = <<>>)

\* results.filter(r => r.success).length with keep = TRUE, the failed with FALSE
Count(results, keep) ==
    Cardinality({k \in DOMAIN results : results[k].success = keep})

\* the handler after await wolService.wakeMultiple(devices), ret being what
\* the call has returned so far
Respond(request, ret) ==
    IF request.route # "wake-multiple" \/ request.status # 0
    THEN request
    ELSE IF ret.state = "resolved"
    THEN [request EXCEPT
             !.status = 200,
             !.response = [results |-> ret.value,
                           notFound |-> request.notFound,
                           summary |-> [total |-> Len(ret.value),
                                        successful |-> Count(ret.value, TRUE),
                                        failed |-> Count(ret.value, FALSE),
                                        notFound |-> Len(request.notFound)]]]
    ELSE IF ret.state = "rejected"
    THEN [request EXCEPT !.status = 500, !.response = [error |-> ret.value]]
    ELSE request

(***************************************************************************)
(* Bounds: the MACs, broadcast addresses and devices the callers pass.     *)
(***************************************************************************)
MaxBatch == 2

WakeMacs == {ExampleMac, OtherMac, MixedMac, EmptyStr}

WakeBroadcasts == {undefined, EmptyStr, ExampleBroadcast}

WakeDevices ==
    {[name |-> NameLowerA, mac |-> ExampleMac, ip |-> undefined, broadcast |-> b] :
        b \in {undefined, ExampleBroadcast}}
    \cup
    {[name |-> NameUpperB, mac |-> MixedMac, ip |-> undefined, broadcast |-> b] :
        b \in {undefined, ExampleBroadcast}}

\* the same devices with and without an ip
WakeDeviceInputs ==
    {[device EXCEPT !.ip = ip] : device \in WakeDevices, ip \in {undefined, ExampleIp}}

Batches == UNION {[1..n -> WakeDevices] : n \in 0..MaxBatch}

\* the caller awaits one call before it makes the next
NoneInFlight == \A i \in DOMAIN promises : promises[i].state # "pending"

Wake(mac, broadcast) ==
    /\ NoneInFlight
    /\ \E threw \in wolThrows(mac) :
           LET device == [name |-> undefined, mac |-> mac, ip |-> undefined,
                          broadcast |-> broadcast]
               ps == <<NewPromise("wake", device, threw)>>
           IN  /\ promises' = ps
               /\ returned' = Settled("wake", <<mac, broadcast>>, ps)
    /\ UNCHANGED <<registry, http>>

WakeDevice(device) ==
    /\ NoneInFlight
    /\ \E threw \in wolThrows(device.mac) :
           LET ps == <<NewPromise("wakeDevice", device, threw)>>
           IN  /\ promises' = ps
               /\ returned' = Settled("wakeDevice", <<device>>, ps)
    /\ UNCHANGED <<registry, http>>

WakeMultiple(batch) ==
    /\ NoneInFlight
    /\ \E threw \in [DOMAIN batch -> BOOLEAN] :
           /\ \A i \in DOMAIN batch : threw[i] \in wolThrows(batch[i].mac)
           /\ LET ps == wakeMultiple(batch, threw)
              IN  /\ promises' = ps
                  /\ returned' = Settled("wakeMultiple", batch, ps)
    /\ UNCHANGED <<registry, http>>

\* wol.wake calls the callback of promise i; a handler that awaits the call
\* goes on when the call's promise is settled
Callback(i, error) ==
    /\ i \in DOMAIN promises
    /\ promises[i].state = "pending"
    /\ error \in wolReports(promises[i].device.mac)
    /\ LET ps == [promises EXCEPT ![i] = Resolved(promises[i], error)]
       IN  /\ promises' = ps
           /\ returned' = Settled(returned.op, returned.args, ps)
           /\ http' = Respond(http, Settled(returned.op, returned.args, ps))
    /\ UNCHANGED registry

NextWake ==
    \/ \E mac \in WakeMacs, broadcast \in WakeBroadcasts : Wake(mac, broadcast)
    \/ \E device \in WakeDeviceInputs : WakeDevice(device)
    \/ \E batch \in Batches : WakeMultiple(batch)
    \/ \E i \in 1..MaxBatch, error \in {null, SendError, MacError} : Callback(i, error)

SpecWake == Init /\ [][NextWake]_vars

(***************************************************************************)
(* The API server serving POST /api/wake-multiple on a registry that was   *)
(* seeded with the example record or imported from devices.json.           *)
(***************************************************************************)
MaxNames == 2

HttpFiles ==
    {NoFile,
     JsonFile(<<Entry(NameLowerA, ExampleMac, undefined),
                Entry(NameUpperB, MixedMac, undefined)>>)}

InitHttp == InitWith(HttpFiles)

RequestNames == {NameLowerA, NameUpperA, NameUpperB, ExampleName}

RequestBodies == UNION {[1..n -> RequestNames] : n \in 0..MaxNames}

PostWakeMultiple(deviceNames) ==
    /\ ensureDb
    /\ NoneInFlight
    /\ LET request == [route |-> "wake-multiple", body |-> deviceNames,
                       notFound |-> NotFound(devices, deviceNames),
                       status |-> 0, response |-> <<>>]
           found == Found(devices, deviceNames)
       IN  IF Len(deviceNames) = 0
           THEN /\ http' = [request EXCEPT !.status = 400]
                /\ promises' = <<>>
                /\ returned' = NoCall
           ELSE IF Len(found) = 0
           THEN /\ http' = [request EXCEPT
                               !.status = 404,
                               !.response = [notFound |-> request.notFound]]
                /\ promises' = <<>>
                /\ returned' = NoCall
           ELSE \E threw \in [DOMAIN found -> BOOLEAN] :
                    /\ \A i \in DOMAIN found : threw[i] \in wolThrows(found[i].mac)
                    /\ LET ps == wakeMultiple(found, threw)
                       IN  /\ promises' = ps
                           /\ returned' = Settled("wakeMultiple", found, ps)
                           /\ http' = Respond(request,
                                              Settled("wakeMultiple", found, ps))
    /\ UNCHANGED registry

NextHttp ==
    \/ LoadDevices
    \/ \E deviceNames \in RequestBodies : PostWakeMultiple(deviceNames)
    \/ \E i \in 1..MaxNames, error \in {null, SendError, MacError} : Callback(i, error)

SpecHttp == InitHttp /\ [][NextHttp]_vars

(***************************************************************************)
(* The ways into the registry: the bootstrap, the API server's POST, PUT   *)
(* and DELETE /api/devices, and the CLI's add, update and remove.          *)
(***************************************************************************)
\* "zz"
BadMac == <<122, 122>>

ApiFiles ==
    {NoFile,
     JsonFile(<<Entry(NameLowerA, BadMac, undefined)>>),
     JsonFile(<<Entry(EmptyStr, ExampleMac, undefined)>>)}

InitApi == InitWith(ApiFiles)

ApiNames == {EmptyStr, NameLowerA, NameUpperB}

ApiMacs == {undefined, EmptyStr, ExampleMac, MixedMac, BadMac}

\* req.body of POST and PUT, and the CLI's arguments and options
ApiBodies == [name : ApiNames \cup {undefined}, mac : ApiMacs, ip : {undefined},
              broadcast : {undefined}]

\* <name> and <mac> of wol add are required arguments: strings, empty or not
CliArgs == {args \in ApiBodies : args.name # undefined /\ args.mac # undefined}

\* POST /api/devices: the status of the response and the table afterwards
postDevice(tbl, body) ==
    IF ~Truthy(body.name) \/ ~Truthy(body.mac)
    THEN [status |-> "400", table |-> tbl]
    ELSE IF ~isValidMac(body.mac)
    THEN [status |-> "400", table |-> tbl]
    ELSE LET out == addDevice(tbl, body)
         IN  [status |-> IF out.result = "ok" THEN "201" ELSE "400",
              table |-> out.table]

\* PUT /api/devices/:name
putDevice(tbl, name, body) ==
    IF Truthy(body.mac) /\ ~isValidMac(body.mac)
    THEN [status |-> "400", table |-> tbl]
    ELSE LET out == updateDevice(tbl, name,
                        Updates(undefined,
                                IF Truthy(body.mac) THEN body.mac ELSE undefined,
                                body.ip, body.broadcast))
         IN  [status |-> IF out.result = "true" THEN "200"
                         ELSE IF out.result = "false" THEN "404" ELSE "400",
              table |-> out.table]

\* DELETE /api/devices/:name
deleteDevice(tbl, name) ==
    LET out == removeDevice(tbl, name)
    IN  [status |-> IF out.result = "true" THEN "200" ELSE "404", table |-> out.table]

\* wol add <name> <mac> [-i ip] [-b broadcast]: the exit code and the table
cliAdd(tbl, args) ==
    IF ~isValidMac(args.mac)
    THEN [status |-> "1", table |-> tbl]
    ELSE LET out == addDevice(tbl, args)
         IN  [status |-> IF out.result = "ok" THEN "0" ELSE "1", table |-> out.table]

\* wol update <name> [-m mac] [-i ip] [-b broadcast]
cliUpdate(tbl, name, options) ==
    IF Truthy(options.mac) /\ ~isValidMac(options.mac)
    THEN [status |-> "1", table |-> tbl]
    ELSE LET pick(v) == IF Truthy(v) THEN v ELSE undefined
             out == updateDevice(tbl, name,
                        Updates(undefined, pick(options.mac), pick(options.ip),
                                pick(options.broadcast)))
         IN  [status |-> IF out.result = "true" THEN "0" ELSE "1", table |-> out.table]

\* wol remove <name>
cliRemove(tbl, name) ==
    LET out == removeDevice(tbl, name)
    IN  [status |-> IF out.result = "true" THEN "0" ELSE "1", table |-> out.table]

\* a request or command served on the open store
Served(op, name, out) ==
    /\ ensureDb
    /\ Cardinality(out.table) <= MaxDevices
    /\ devices' = out.table
    /\ last' = Call(op, name, FALSE, out.status, <<>>)
    /\ UNCHANGED <<db, legacy, calls, imported, loads, dispatcher>>

PostDevice(body) == Served("POST", body.name, postDevice(devices, body))

PutDevice(name, body) == Served("PUT", name, putDevice(devices, name, body))

DeleteDevice(name) == Served("DELETE", name, deleteDevice(devices, name))

CliAdd(args) == Served("add", args.name, cliAdd(devices, args))

CliUpdate(name, options) == Served("update", name, cliUpdate(devices, name, options))

CliRemove(name) == Served("remove", name, cliRemove(devices, name))

\* Express matches :name to a non-empty path segment; the CLI takes any string
NextApi ==
    \/ LoadDevices
    \/ \E body \in ApiBodies : PostDevice(body)
    \/ \E name \in ApiNames \ {EmptyStr}, body \in ApiBodies : PutDevice(name, body)
    \/ \E name \in ApiNames \ {EmptyStr} : DeleteDevice(name)
    \/ \E args \in CliArgs : CliAdd(args)
    \/ \E name \in ApiNames, options \in ApiBodies : CliUpdate(name, options)
    \/ \E name \in ApiNames : CliRemove(name)

SpecApi == InitApi /\ [][NextApi]_vars

(***************************************************************************)
(* The registry's contract                                                 *)
(***************************************************************************)
HasName(tbl, name) == \E r \in tbl : NocaseEqual(r.name, name)

\* C1: the registry never holds two devices whose names are equal ignoring
\* case, whatever was added, removed, updated or renamed.
C1_UniqueNames ==
    \A r \in devices : \A q \in devices : NocaseEqual(r.name, q.name) => r = q

\* two devices are kept and the last call was an update that changed a record
C1_Witness ==
    /\ Cardinality(devices) = 2
    /\ last.op = "update" /\ ~last.empty /\ last.result = "true"

\* C2: adding a device whose name, ignoring case, is already taken fails with
\* the duplicate-name error and leaves the registry exactly as it was.
C2_SecondAddFails ==
    [][(last'.op = "add" /\ HasName(devices, last'.name))
          => (last'.result = "DuplicateName" /\ devices' = devices)]_vars

\* an add was refused for a name that is spelled differently from the stored one
C2_Witness ==
    /\ last.op = "add" /\ last.result = "DuplicateName"
    /\ \E r \in devices : NocaseEqual(r.name, last.name) /\ r.name # last.name

\* C5: getDevices() returns the stored devices, each once, in strictly
\* ascending order of name ignoring case.
C5_ListSortedNoDuplicates ==
    last.op = "list" =>
        /\ \A i \in 1..Len(last.value) : \A j \in 1..Len(last.value) :
               i < j => NocaseCompare(last.value[i].name, last.value[j].name) < 0
        /\ {last.value[i] : i \in 1..Len(last.value)}
               = {normalizeDevice(r) : r \in devices}

\* a list of "a" before "B": byte for byte "B" would come first
C5_Witness ==
    /\ last.op = "list" /\ Len(last.value) = 2
    /\ last.value[1].name = NameLowerA /\ last.value[2].name = NameUpperB

\* C7: updateDevice(name, {}) on an existing device returns true and leaves
\* every record as it was.
C7_EmptyUpdateNoOp ==
    [][(last'.op = "update" /\ last'.empty /\ HasName(devices, last'.name))
          => (last'.result = "true" /\ devices' = devices)]_vars

\* an empty update of a device addressed in another spelling than the stored one
C7_Witness ==
    /\ last.op = "update" /\ last.empty /\ last.result = "true"
    /\ \E r \in devices : NocaseEqual(r.name, last.name) /\ r.name # last.name

\* C8: removeDevice(name) returns true exactly when a record had that name
\* ignoring case; it removes that record and no other, and afterwards
\* getDevice finds nothing under any spelling of the name.
C8_RemoveByName ==
    [][last'.op = "remove" =>
          /\ last'.result = (IF HasName(devices, last'.name) THEN "true" ELSE "false")
          /\ devices' = {r \in devices : ~NocaseEqual(r.name, last'.name)}
          /\ \A v \in Names :
                 NocaseEqual(v, last'.name) => getDevice(devices', v) = <<>>]_vars

\* "A" was removed and another device is still there
C8_Witness ==
    /\ last.op = "remove" /\ last.result = "true" /\ last.name = NameUpperA
    /\ devices # {}

\* C9: for a name no device has, getDevice returns undefined, removeDevice
\* and updateDevice return false, nothing is thrown and no record changes.
C9_NotFound ==
    [][(last'.op \in {"get", "remove", "update"} /\ ~HasName(devices, last'.name))
          => /\ devices' = devices
             /\ last'.op = "get" => (last'.result = "undefined" /\ last'.value = <<>>)
             /\ last'.op \in {"remove", "update"} => last'.result = "false"]_vars

\* an update that supplied something returned false while other devices exist
C9_Witness ==
    /\ last.op = "update" /\ ~last.empty /\ last.result = "false"
    /\ devices # {} /\ ~HasName(devices, last.name)

\* C10: getDevice under any spelling of a stored device's name returns that
\* device's record, the one getDevice returns for the stored spelling, and
\* changes nothing.
C10_GetIgnoresCase ==
    [][last'.op = "get" =>
          /\ devices' = devices
          /\ \A r \in devices :
                 NocaseEqual(r.name, last'.name) =>
                     /\ last'.result = "found"
                     /\ last'.value = <<normalizeDevice(r)>>
                     /\ last'.value = getDevice(devices, r.name)]_vars

\* a device was found under another spelling than the stored one
C10_Witness ==
    /\ last.op = "get" /\ last.result = "found"
    /\ last.value[1].name # last.name

\* C3: of two addDevice calls for one name (ignoring case) that no record had,
\* however their lookups and inserts interleave, one succeeds, the other
\* fails with the 'already exists' error, and one record is inserted.
C3_OneSuccessOneDuplicateName ==
    \A p \in Procs : \A q \in Procs :
        (/\ p # q
         /\ calls[p].pc = "done" /\ calls[q].pc = "done"
         /\ NocaseEqual(calls[p].device.name, calls[q].device.name))
        => /\ {calls[p].result, calls[q].result} = {"ok", "DuplicateName"}
           /\ Cardinality(WhereName(devices, calls[p].device.name)) = 1

\* C4: updateDevice throws the duplicate-name error only when a record other
\* than the one addressed has the new name ignoring case, and then changes
\* nothing.
C4_DuplicateNameOnlyForAnotherRecord ==
    [][(last'.op = "update" /\ last'.result = "DuplicateName") =>
          /\ devices' = devices
          /\ \A u \in UpdateInputs :
                 UpdateDevice(last'.name, u) =>
                     \E r \in devices : /\ ~NocaseEqual(r.name, last'.name)
                                        /\ NocaseEqual(r.name, u.name)]_vars

\* what getDevice is to return after updateDevice(name, u) on record old:
\* a key not supplied keeps its value, null or the empty string clears it
ExpectedAfter(old, u) ==
    [c \in DOMAIN old |->
        IF u[c] = undefined THEN normalizeDevice(old)[c]
        ELSE IF Nullish(u[c]) \/ u[c] = EmptyStr THEN undefined
        ELSE u[c]]

\* C6: updateDevice on an existing device, with a name and a mac that are
\* strings where supplied and a new name no other record has, changes exactly
\* the supplied fields of that record and no other record.
C6_ExactlySuppliedFields ==
    [][last'.op = "update" =>
          \A u \in UpdateInputs :
              (/\ UpdateDevice(last'.name, u)
               /\ HasName(devices, last'.name)
               /\ ~Nullish(u.mac)
               /\ u.name \in (Names \ {EmptyStr}) \cup {undefined}
               /\ ~\E r \in devices : /\ ~NocaseEqual(r.name, last'.name)
                                     /\ NocaseEqual(r.name, u.name))
              => LET old == CHOOSE r \in devices : NocaseEqual(r.name, last'.name)
                 IN  \E new \in devices' :
                         /\ normalizeDevice(new) = ExpectedAfter(old, u)
                         /\ devices' \ {new} = devices \ {old}]_vars

(***************************************************************************)
(* The bootstrap's contract                                                *)
(***************************************************************************)
\* a step of loadDevices() in a process that has not opened the store yet
Startup == ~db /\ last'.op = "load"

\* the records a list of devices.json entries stands for
Records(entries) ==
    {Row(entries[i].name, entries[i].mac, OrNull(entries[i].ip),
         OrNull(entries[i].broadcast)) : i \in DOMAIN entries}

\* every entry has a name and a mac, and no two entries have the same name
WellFormed(entries) ==
    /\ \A i \in DOMAIN entries : ~Nullish(entries[i].name) /\ ~Nullish(entries[i].mac)
    /\ \A i, j \in DOMAIN entries :
           i # j => ~NocaseEqual(entries[i].name, entries[j].name)

\* C11: when devices.json is present and its import fails, be it at JSON.parse
\* or at an entry's INSERT after earlier entries were inserted, loadDevices
\* leaves none of the file's entries in the registry: exactly the example record.
C11_FailedImportLeavesOnlyExample ==
    [][(Startup /\ devices = {} /\ legacy.exists
            /\ (~legacy.parses \/ ~WellFormed(legacy.entries)))
        => devices' = {ExampleDevice}]_vars

\* C12: once devices.json has been imported, no later start imports it again,
\* whatever was added or removed in between, also when every device was removed:
\* a start after the import leaves the store's rows as it finds them.
C12_ImportedOnlyOnce ==
    [][(imported /\ Startup) => devices' = devices]_vars

\* C13: on an empty store a devices.json of n entries with distinct names leaves
\* exactly those n records and no example record; loadDevices called again, by
\* the same manager or by a new one on the store that now has rows, changes nothing.
C13_ImportExactlyTheEntries ==
    [][last'.op = "load" =>
          IF db \/ devices # {}
          THEN devices' = devices
          ELSE (legacy.exists /\ legacy.parses /\ WellFormed(legacy.entries))
                   => devices' = Records(legacy.entries)]_vars

C13_Witness ==
    /\ last.op = "load"
    /\ imported
    /\ Len(legacy.entries) = 2
    /\ devices = Records(legacy.entries)
    /\ ~HasName(devices, ExampleName)

\* C14: with an empty store and no devices.json, loadDevices leaves exactly one
\* record, example-device / 00:11:22:33:44:55 / 192.168.1.100 / 192.168.1.255;
\* with rows in the store at load, no example record is inserted.
C14_ExampleOnlyOnEmptyStore ==
    [][last'.op = "load" =>
          /\ (~db /\ devices = {} /\ ~legacy.exists)
                 => devices' = {[name |-> ExampleName, mac |-> ExampleMac,
                                 ip |-> ExampleIp, broadcast |-> ExampleBroadcast]}
          /\ devices # {}
                 => ~\E r \in devices' \ devices : NocaseEqual(r.name, ExampleName)]_vars

C14_Witness ==
    /\ last.op = "load"
    /\ ~legacy.exists
    /\ devices = {[name |-> ExampleName, mac |-> ExampleMac,
                   ip |-> ExampleIp, broadcast |-> ExampleBroadcast]}

(***************************************************************************)
(* The MAC format check's contract.  A string's groups are what lies       *)
(* before, between and after its ':' and '-' characters.                   *)
(***************************************************************************)
Returned(op) == returned.op = op /\ returned.state = "returned"

RECURSIVE SplitFrom(_, _, _, _)
SplitFrom(mac, i, group, done) ==
    IF i > Len(mac) THEN Append(done, group)
    ELSE IF mac[i] \in {58, 45}
    THEN SplitFrom(mac, i + 1, <<>>, Append(done, group))
    ELSE SplitFrom(mac, i + 1, Append(group, mac[i]), done)

GroupsOf(mac) == SplitFrom(mac, 1, <<>>, <<>>)

SeparatorsOf(mac) == SelectSeq(mac, LAMBDA c : c \in {58, 45})

\* 0-9, A-F, a-f
HexDigits == (48..57) \cup (65..70) \cup (97..102)

SixHexPairs(mac) ==
    /\ Len(GroupsOf(mac)) = 6
    /\ \A k \in 1..6 :
           /\ Len(GroupsOf(mac)[k]) = 2
           /\ \A n \in 1..2 : GroupsOf(mac)[k][n] \in HexDigits

OneSeparator(mac) ==
    \A i, j \in DOMAIN SeparatorsOf(mac) : SeparatorsOf(mac)[i] = SeparatorsOf(mac)[j]

\* C15: isValidMac returns false for every string whose five separators are
\* not all the same character, such as 'AA:BB-CC:DD:EE:FF'.
C15_MixedSeparatorsRejected ==
    Returned("isValidMac") =>
        ((Len(SeparatorsOf(returned.args[1])) = 5 /\ ~OneSeparator(returned.args[1]))
            => returned.value = FALSE)

\* C16: isValidMac returns true for every string of exactly six groups of two
\* hex digits, upper or lower case, joined by ':' throughout or by '-'
\* throughout; it returns false for every string that has fewer or more than
\* six groups, a group that is not exactly two hex digits, a character that is
\* no hex digit, or extra characters before or after.
C16_SixHexPairsOneSeparator ==
    Returned("isValidMac") =>
        /\ (SixHexPairs(returned.args[1]) /\ OneSeparator(returned.args[1]))
               => returned.value = TRUE
        /\ ~SixHexPairs(returned.args[1]) => returned.value = FALSE

C16_Witness ==
    /\ Returned("isValidMac")
    /\ returned.value = TRUE
    /\ SixHexPairs(returned.args[1])
    /\ returned.args[1][3] = 45
    /\ OneSeparator(returned.args[1])

(***************************************************************************)
(* The wake dispatcher's contract                                          *)
(***************************************************************************)
\* every wol.wake call of the call in progress has thrown or called back
AllSendsOver == \A i \in DOMAIN promises : promises[i].state # "pending"

\* the send of promise i failed: wol.wake threw, or its callback got an Error
SendFailed(i) ==
    \/ promises[i].state = "rejected"
    \/ promises[i].callback # <<>> /\ promises[i].callback[1] # null

\* text occurs in message
Embeds(message, text) ==
    \E k \in 0..(Len(message) - Len(text)) :
        SubSeq(message, k + 1, k + Len(text)) = text

\* C17: wakeMultiple(devices) returns a sequence as long as devices whose i-th
\* result has the name and the mac of devices[i] and tells the outcome of
\* devices[i]'s own send, in whatever order the sends complete.
C17_ResultsInInputOrder ==
    (returned.op = "wakeMultiple" /\ AllSendsOver) =>
        /\ returned.state = "resolved"
        /\ Len(returned.value) = Len(returned.args)
        /\ \A i \in DOMAIN returned.args :
               /\ returned.value[i].device = returned.args[i].name
               /\ returned.value[i].mac = returned.args[i].mac
               /\ returned.value[i].success = ~SendFailed(i)

\* C18: in wakeMultiple a device's failed wake, be it an Error given to the
\* callback or an exception thrown by the send routine, neither keeps the other
\* devices' wakes from completing nor takes their results away: one WakeResult
\* per device is returned, with success = false for the failed ones.
C18_FailureIsolated ==
    returned.op = "wakeMultiple" =>
        /\ returned.state # "rejected"
        /\ AllSendsOver =>
               /\ returned.state = "resolved"
               /\ DOMAIN returned.value = DOMAIN returned.args
               /\ \A i \in DOMAIN returned.args :
                      SendFailed(i) => returned.value[i].success = FALSE

\* C19: wake and wakeDevice called with a MAC that is not well-formed resolve to
\* a WakeResult with success = false; also when the send routine throws instead
\* of calling the callback, the promise is not rejected.
C19_MalformedMacFailsClosed ==
    (returned.op \in {"wake", "wakeDevice"} /\ ~wolCanSend(promises[1].device.mac)) =>
        /\ returned.state # "rejected"
        /\ returned.state = "resolved" => returned.value.success = FALSE

\* C20: wake(mac, broadcast) makes one send attempt and always resolves to a
\* WakeResult with device 'Unknown' and the mac it was given; success is true
\* exactly when the callback got no error, and on an error the message embeds
\* the error's description.
C20_WakeOnceAndResolve ==
    returned.op = "wake" =>
        /\ promises[1].sends = 1
        /\ returned.state # "rejected"
        /\ returned.state = "resolved" =>
               /\ returned.value.device = Unknown
               /\ returned.value.mac = returned.args[1]
               /\ returned.value.success = (promises[1].callback = <<null>>)
               /\ promises[1].callback # <<null>> =>
                      Embeds(returned.value.message, promises[1].callback[1])

\* C21: wakeMultiple starts the send of every device before it waits for any
\* send to complete: in no state is the send of device i awaited while the send
\* of a later device j has not been started.
C21_AllStartedBeforeWaiting ==
    returned.op = "wakeMultiple" =>
        \A i, j \in DOMAIN promises :
            (i < j /\ promises[i].state = "pending") => promises[j].sends >= 1

C21_Witness ==
    /\ returned.op = "wakeMultiple"
    /\ returned.state = "pending"
    /\ Len(promises) >= 2
    /\ promises[1].state = "pending"
    /\ promises[2].state = "pending"
    /\ promises[2].sends = 1

\* C23: a wake goes to the broadcast address that was supplied, device.broadcast
\* in wakeDevice and broadcast in wake, and to the send routine's default when
\* there is none; the device's ip plays no part.
C23_DestinationIsBroadcastOrDefault ==
    \A i \in DOMAIN promises :
        promises[i].sends >= 1 =>
            promises[i].address =
                IF promises[i].device.broadcast \in {undefined, null, EmptyStr}
                THEN undefined
                ELSE promises[i].device.broadcast

C23_Witness ==
    /\ returned.op = "wakeDevice"
    /\ promises[1].device.ip = ExampleIp
    /\ promises[1].device.broadcast = undefined
    /\ promises[1].sends = 1
    /\ promises[1].address = undefined

(***************************************************************************)
(* The contract of POST /api/wake-multiple                                 *)
(***************************************************************************)
Resolves(name) == HasName(devices, name)

\* C26: for a non-empty array of names of which at least one resolves, every
\* requested name is accounted for once, by an entry of results, in request
\* order, or by an entry of notFound, and total = successful + failed = number
\* of results, total + notFound = number of names; when no name resolves the
\* answer is 404 and no wake is attempted.
C26_EveryNameAccountedFor ==
    (http.route = "wake-multiple" /\ Len(http.body) > 0 /\ AllSendsOver) =>
        IF \E k \in DOMAIN http.body : Resolves(http.body[k])
        THEN /\ http.status = 200
             /\ LET results == http.response.results
                    summary == http.response.summary
                    resolved == SelectSeq(http.body, Resolves)
                IN  /\ Len(results) = Len(resolved)
                    /\ \A k \in DOMAIN results :
                           NocaseEqual(results[k].device, resolved[k])
                    /\ http.response.notFound =
                           SelectSeq(http.body, LAMBDA name : ~Resolves(name))
                    /\ summary.total = Len(results)
                    /\ summary.total = summary.successful + summary.failed
                    /\ summary.total + summary.notFound = Len(http.body)
        ELSE /\ http.status = 404
             /\ promises = <<>>

(***************************************************************************)
(* The bootstrap under concurrent starts                                   *)
(***************************************************************************)
\* C24: when loadDevices is started twice at once on an empty store, the
\* bootstrap takes effect once: the registry never holds legacy entries and
\* the example record together, no seed record is there twice, and neither
\* call fails.
C24_BootstrapOnce ==
    /\ \A p \in Procs : loads[p].result # "SQLITE_CONSTRAINT"
    /\ ~(/\ HasName(devices, ExampleName)
         /\ \E i \in DOMAIN legacy.entries : HasName(devices, legacy.entries[i].name))
    /\ \A r1, r2 \in devices : NocaseEqual(r1.name, r2.name) => r1 = r2

(***************************************************************************)
(* The registry's invariant on what it stores                              *)
(***************************************************************************)
\* C25: in every state reached by the bootstrap followed by POST, PUT and DELETE
\* /api/devices requests and CLI add, update and remove commands, every stored
\* device has a non-empty name and a mac that isValidMac accepts.
C25_StoredDevicesValid ==
    \A r \in devices : r.name # EmptyStr /\ isValidMac(r.mac)

====
